---------------------------- MODULE Spec2Model ----------------------------
(***************************************************************************)
(* The streaming chat function of examples/gradio_example/main.py          *)
(* (chat_function_with_agent) and the event handler chain it drives.       *)
(*                                                                         *)
(* chat_function_with_agent is an asynchronous generator: it builds a      *)
(* fresh context, enters every MCP server on an AsyncExitStack, starts the *)
(* streamed run, and for each event of the run calls                       *)
(* event_handler_chain.process_event; when that returns true it yields the *)
(* current message list.  The module event_handler (EventHandlerChain and  *)
(* its handlers) is imported by main.py but is not part of the source      *)
(* tree; its behaviour is modelled from the design document.               *)
(*                                                                         *)
(* Text is a sequence of characters, so that appending a delta is          *)
(* concatenation (\o) and not an opaque token.                             *)
(***************************************************************************)
EXTENDS Naturals, Sequences, FiniteSets

VARIABLES
    handlers,     \* the chain's registered handlers, in registration order
    pc,           \* position of the generator
    outcome,      \* how the generator is going to end / has ended
    stream,       \* the events the run delivers, in arrival order
    pos,          \* number of events pulled from the stream so far
    ctx,          \* context = {"response_buffer", "current_messages"}
    emitted,      \* the snapshots yielded so far, in order
    entered,      \* the exit stack: servers entered and not yet exited
    enterLog,     \* every server entered, in order
    exitLog,      \* every server exited, in order
    runStarted,   \* Runner.run_streamed has been called
    streamOpen,   \* the run's event stream is live (opened and not ended)
    lastResult,   \* what process_event returned for the last event
    lastRaised,   \* process_event raised on the last event
    trueCount,    \* number of events for which process_event returned true
    invoked,      \* the handlers whose handle ran on the last event
    prevCtx,      \* the context before the last event was processed
    turn,         \* the user turn the chat function is serving (1, 2, ...)
    priorText,    \* an earlier turn ended with text or messages in its context
    runs,         \* concurrent calls: each one's position, events and snapshots
    ctxs          \* concurrent calls: the context objects, by the call owning it

\* the variables of one call of the chat function
callVars == <<pc, outcome, stream, pos, ctx, emitted, entered, enterLog,
              exitLog, runStarted, streamOpen, lastResult, lastRaised,
              trueCount, invoked, prevCtx>>

\* the variables of a sequence of turns and of concurrent calls
sessionVars == <<turn, priorText, runs, ctxs>>

vars == <<handlers, callVars, sessionVars>>

-----------------------------------------------------------------------------
(* Bounds *)

\* longest event stream of a run (the end-to-end scenario is added to these)
MaxEvents == 3

\* number of MCP servers handed to create_agent_app
NumServers == 2

\* number of user turns served one after the other
MaxTurns == 2

\* longest event stream of each of two concurrent calls
MaxRunEvents == 2

-----------------------------------------------------------------------------
(* Events *)

NoText == << >>

Hi == <<"H", "i">>

There == <<" ", "t", "h", "e", "r", "e">>

HiThere == <<"H", "i", " ", "t", "h", "e", "r", "e">>

TextDelta(t) ==
    [kind |-> "text_delta", text |-> t, tool |-> "", result |-> "", valid |-> TRUE]

\* a text-delta event whose delta field is absent
MalformedDelta ==
    [kind |-> "text_delta", text |-> NoText, tool |-> "", result |-> "", valid |-> FALSE]

ToolCallStarted(n) ==
    [kind |-> "tool_call_started", text |-> NoText, tool |-> n, result |-> "", valid |-> TRUE]

ToolCallResult(n, r) ==
    [kind |-> "tool_call_result", text |-> NoText, tool |-> n, result |-> r, valid |-> TRUE]

AgentHandoff ==
    [kind |-> "agent_handoff", text |-> NoText, tool |-> "", result |-> "", valid |-> TRUE]

RunCompleted ==
    [kind |-> "run_completed", text |-> NoText, tool |-> "", result |-> "", valid |-> TRUE]

\* an event kind none of the built-in handlers recognises
OtherEvent ==
    [kind |-> "other", text |-> NoText, tool |-> "", result |-> "", valid |-> TRUE]

Events ==
    { TextDelta(Hi), TextDelta(There), MalformedDelta,
      ToolCallStarted("search"), ToolCallResult("search", "3 hits"),
      AgentHandoff, RunCompleted, OtherEvent }

Scenario ==
    << TextDelta(Hi), TextDelta(There), ToolCallStarted("search"),
       ToolCallResult("search", "3 hits"), RunCompleted >>

SeqsUpTo(S, n) == UNION { [1..k -> S] : k \in 0..n }

Streams == SeqsUpTo(Events, MaxEvents) \cup {Scenario}

-----------------------------------------------------------------------------
(* Context and messages *)

NoMeta == [tool |-> "", result |-> ""]

AssistantMessage(c) == [role |-> "assistant", content |-> c, metadata |-> NoMeta]

ToolStatus(n) ==
    [role |-> "tool", content |-> NoText, metadata |-> [tool |-> n, result |-> ""]]

\* the message built with the text of an earlier turn still in it
StaleContext ==
    [buffer |-> NoText, messages |-> << AssistantMessage(Hi) >>, current |-> 1]

\* the response buffer built with text in it
StaleBuffer ==
    [buffer |-> Hi, messages |-> << AssistantMessage(NoText) >>, current |-> 1]

\* 21-24: one assistant message with empty content, an empty response
\* buffer; current_message is the first entry of current_messages
FreshContext ==
    [buffer |-> NoText, messages |-> << AssistantMessage(NoText) >>, current |-> 1]


-----------------------------------------------------------------------------
(* The handlers (design document, 4.2).  handle gives the context after    *)
(* the event, the value returned, and whether it raised instead.           *)

Returned(c, r) == [ctx |-> c, result |-> r, raised |-> FALSE]

Raised(c) == [ctx |-> c, result |-> FALSE, raised |-> TRUE]

\* TextDeltaHandler: appends the delta to the buffer and to the current
\* assistant message; every delta is visible.  A delta that is absent is a
\* malformed payload, and the handler raises.
TextDeltaCanHandle(e) == e.kind = "text_delta"

TextDeltaHandle(e, c) ==
    IF ~e.valid
    THEN Raised(c)
    ELSE Returned([c EXCEPT !.buffer = @ \o e.text,
                            !.messages[c.current].content = @ \o e.text],
                  TRUE)

\* ToolCallHandler: tool-call-started appends a tool-status entry;
\* tool-call-result writes the result into the metadata of the entry of that
\* call (the most recent entry for the tool).  Both are visible.
ToolCallCanHandle(e) == e.kind \in {"tool_call_started", "tool_call_result"}

ToolEntries(msgs, n) ==
    { i \in 1..Len(msgs) : msgs[i].role = "tool" /\ msgs[i].metadata.tool = n }

LastToolEntry(msgs, n) ==
    CHOOSE i \in ToolEntries(msgs, n) : \A j \in ToolEntries(msgs, n) : j <= i

\* the result is shown as a message of its own
ToolCallAppendsResult(e, c) ==
    IF e.kind = "tool_call_started"
    THEN Returned([c EXCEPT !.messages = Append(@, ToolStatus(e.tool))], TRUE)
    ELSE Returned([c EXCEPT !.messages =
                       Append(@, [role |-> "tool", content |-> NoText,
                                  metadata |-> [tool |-> e.tool,
                                                result |-> e.result]])],
                  TRUE)

ToolCallHandle(e, c) ==
    IF e.kind = "tool_call_started"
    THEN Returned([c EXCEPT !.messages = Append(@, ToolStatus(e.tool))], TRUE)
    ELSE IF ToolEntries(c.messages, e.tool) = {}
         THEN Returned(c, TRUE)
         ELSE Returned([c EXCEPT !.messages[LastToolEntry(c.messages, e.tool)]
                                     .metadata.result = e.result],
                       TRUE)

\* HandoffHandler: the current assistant message is finished as it stands, a
\* new empty assistant message is appended and becomes the current one, and
\* the buffer is reset.  Visible.
HandoffCanHandle(e) == e.kind = "agent_handoff"

\* the new message is appended but the old one stays the current one
HandoffKeepsCurrent(e, c) ==
    Returned([buffer   |-> NoText,
              messages |-> Append(c.messages, AssistantMessage(NoText)),
              current  |-> c.current],
             TRUE)

HandoffHandle(e, c) ==
    Returned([buffer   |-> NoText,
              messages |-> Append(c.messages, AssistantMessage(NoText)),
              current  |-> Len(c.messages) + 1],
             TRUE)

\* CompletionHandler: no mutation, not visible.
CompletionCanHandle(e) == e.kind = "run_completed"

CompletionHandle(e, c) == Returned(c, FALSE)

\* A handler registered by an application for a kind of its own (here the
\* kind "other"), in front of the fallback.  It reports a visible change.
CustomCanHandle(e) == e.kind = "other"

CustomHandle(e, c) == Returned(c, TRUE)

\* FallbackHandler: claims every event, ignores it, not visible.
FallbackCanHandle(e) == TRUE

FallbackHandle(e, c) == Returned(c, FALSE)

CanHandle(h, e) ==
    CASE h = "text_delta" -> TextDeltaCanHandle(e)
      [] h = "tool_call"  -> ToolCallCanHandle(e)
      [] h = "handoff"    -> HandoffCanHandle(e)
      [] h = "completion" -> CompletionCanHandle(e)
      [] h = "custom"     -> CustomCanHandle(e)
      [] h = "fallback"   -> FallbackCanHandle(e)

Handle(h, e, c) ==
    CASE h = "text_delta" -> TextDeltaHandle(e, c)
      [] h = "tool_call"  -> ToolCallHandle(e, c)
      [] h = "handoff"    -> HandoffHandle(e, c)
      [] h = "completion" -> CompletionHandle(e, c)
      [] h = "custom"     -> CustomHandle(e, c)
      [] h = "fallback"   -> FallbackHandle(e, c)

\* EventHandlerChain(): the built-in handlers, the fallback last
DefaultHandlers == <<"text_delta", "tool_call", "handoff", "completion", "fallback">>

\* the same chain with a custom handler registered before the fallback
CustomHandlers ==
    <<"text_delta", "tool_call", "handoff", "completion", "custom", "fallback">>

Registrations == {DefaultHandlers, CustomHandlers}

-----------------------------------------------------------------------------
(* The chain (design document, 4.3): the handlers are tried in             *)
(* registration order from position i on; the first whose canHandle is     *)
(* true handles the event and its result is the chain's.  With no handler  *)
(* left the chain returns false and the context is untouched.              *)

RECURSIVE ChainFrom(_, _, _, _)
ChainFrom(hs, i, e, c) ==
    IF i > Len(hs)
    THEN [out |-> Returned(c, FALSE), invoked |-> << >>]
    ELSE IF CanHandle(hs[i], e)
         THEN [out |-> Handle(hs[i], e, c), invoked |-> << hs[i] >>]
         ELSE ChainFrom(hs, i + 1, e, c)

\* every handler that matches handles the event in turn; the last result is
\* the chain's
RECURSIVE ChainAll(_, _, _, _)
ChainAll(hs, i, e, c) ==
    IF i > Len(hs)
    THEN [out |-> Returned(c, FALSE), invoked |-> << >>]
    ELSE IF CanHandle(hs[i], e)
         THEN LET o == Handle(hs[i], e, c)
                  rest == ChainAll(hs, i + 1, e, o.ctx)
              IN  IF o.raised \/ rest.invoked = << >>
                  THEN [out |-> o, invoked |-> << hs[i] >>]
                  ELSE [out |-> rest.out, invoked |-> << hs[i] >> \o rest.invoked]
         ELSE ChainAll(hs, i + 1, e, c)

ProcessEventNoStop(hs, e, c) == ChainAll(hs, 1, e, c)

ProcessEvent(hs, e, c) == ChainFrom(hs, 1, e, c)

-----------------------------------------------------------------------------
(* chat_function_with_agent (main.py 17-36)                                *)
(*                                                                         *)
(* pc: "idle"      not called yet                                          *)
(*     "entering"  inside the async with, entering the servers (27-28)     *)
(*     "await"     suspended in the async for, awaiting the next event (31)*)
(*     "yield"     suspended at the yield of a snapshot (36)               *)
(*     "unwinding" leaving the async with: the exit stack exits the        *)
(*                 servers it holds, last entered first (26)               *)
(*     "ended"     the generator has ended; outcome says how               *)

Servers == 1..NumServers

\* the concurrent calls considered: two user turns in flight at once
Runs == {1, 2}

\* a call that has not begun
IdleRun == [pc |-> "idle", key |-> 0, pulled |-> << >>, emitted |-> << >>]

Init ==
    /\ handlers \in Registrations
    /\ pc = "idle"
    /\ outcome = "none"
    /\ stream = << >>
    /\ pos = 0
    /\ ctx = FreshContext
    /\ emitted = << >>
    /\ entered = << >>
    /\ enterLog = << >>
    /\ exitLog = << >>
    /\ runStarted = FALSE
    /\ streamOpen = FALSE
    /\ lastResult = FALSE
    /\ lastRaised = FALSE
    /\ trueCount = 0
    /\ invoked = << >>
    /\ prevCtx = FreshContext
    /\ turn = 1
    /\ priorText = FALSE
    /\ runs = [r \in Runs |-> IdleRun]
    /\ ctxs = [r \in Runs |-> FreshContext]

\* the message and the context built once, outside the chat function, and
\* used again by every call
CallKeepsContext ==
    /\ pc = "idle"
    /\ ctx' = ctx
    /\ prevCtx' = ctx
    /\ pc' = "entering"
    /\ UNCHANGED sessionVars
    /\ UNCHANGED <<handlers, outcome, stream, pos, emitted, entered,
                   enterLog, exitLog, runStarted, streamOpen, lastResult,
                   lastRaised, trueCount, invoked>>

\* 21-26: the context of this turn is built and the exit stack is opened
Call ==
    /\ pc = "idle"
    /\ ctx' = FreshContext
    /\ prevCtx' = FreshContext
    /\ pc' = "entering"
    /\ UNCHANGED sessionVars
    /\ UNCHANGED <<handlers, outcome, stream, pos, emitted, entered,
                   enterLog, exitLog, runStarted, streamOpen, lastResult,
                   lastRaised, trueCount, invoked>>

\* the next server of mcp_servers to enter
NextServer == Len(enterLog) + 1

\* 27-28: the next server is entered and pushed on the exit stack
EnterServer ==
    /\ pc = "entering"
    /\ NextServer \in Servers
    /\ entered' = Append(entered, NextServer)
    /\ enterLog' = Append(enterLog, NextServer)
    /\ UNCHANGED sessionVars
    /\ UNCHANGED <<handlers, pc, outcome, stream, pos, ctx, emitted, exitLog,
                   runStarted, streamOpen, lastResult, lastRaised, trueCount,
                   invoked, prevCtx>>

\* the servers entered without the exit stack: a failure ends the function
\* with the servers entered so far still open
EnterFailsLeaks ==
    /\ pc = "entering"
    /\ NextServer \in Servers
    /\ pc' = "ended"
    /\ outcome' = "enter_failed"
    /\ UNCHANGED sessionVars
    /\ UNCHANGED <<handlers, stream, pos, ctx, emitted, entered, enterLog,
                   exitLog, runStarted, streamOpen, lastResult, lastRaised,
                   trueCount, invoked, prevCtx>>

\* 28: entering the next server raises; the exception leaves the async with
EnterFails ==
    /\ pc = "entering"
    /\ NextServer \in Servers
    /\ pc' = "unwinding"
    /\ outcome' = "enter_failed"
    /\ UNCHANGED sessionVars
    /\ UNCHANGED <<handlers, stream, pos, ctx, emitted, entered, enterLog,
                   exitLog, runStarted, streamOpen, lastResult, lastRaised,
                   trueCount, invoked, prevCtx>>

\* 30-31: every server is entered; the streamed run is started and its event
\* stream is iterated.  The run decides the events it will deliver.
StartRun ==
    /\ pc = "entering"
    /\ NextServer \notin Servers
    /\ \E s \in Streams : stream' = s
    /\ runStarted' = TRUE
    /\ streamOpen' = TRUE
    /\ pc' = "await"
    /\ UNCHANGED sessionVars
    /\ UNCHANGED <<handlers, outcome, pos, ctx, emitted, entered, enterLog,
                   exitLog, lastResult, lastRaised, trueCount, invoked,
                   prevCtx>>

\* the if of line 33 left out: a snapshot for every event
ShouldYieldAlways(result) == TRUE

\* the condition of line 33 negated
ShouldYieldInverted(result) == ~result

\* 33: the condition of the if
ShouldYield(result) == result

\* the message being written is yielded instead of the list
SnapshotOfCurrentOnly(c) == << c.messages[c.current] >>

\* 35-36: what is yielded: the value of context["current_messages"]
Snapshot(c) == c.messages

\* the exception of process_event caught and the event skipped
AfterEventSwallows(o, how, snaps) ==
    IF o.raised
    THEN [pc |-> "await", outcome |-> how, emitted |-> snaps]
    ELSE IF ShouldYield(o.result)
         THEN [pc |-> "yield", outcome |-> how,
               emitted |-> Append(snaps, Snapshot(o.ctx))]
         ELSE [pc |-> "await", outcome |-> how, emitted |-> snaps]

\* 33-36: where the generator is after process_event, given its outcome so
\* far (how) and the snapshots yielded so far (snaps).
\* An exception of process_event is not caught and leaves the loop; a true
\* result suspends the generator at the yield with the current message list;
\* a false result goes back to awaiting the next event.
AfterEvent(o, how, snaps) ==
    IF o.raised
    THEN [pc |-> "unwinding", outcome |-> "handler_failed", emitted |-> snaps]
    ELSE IF ShouldYield(o.result)
         THEN [pc |-> "yield", outcome |-> how,
               emitted |-> Append(snaps, Snapshot(o.ctx))]
         ELSE [pc |-> "await", outcome |-> how, emitted |-> snaps]

\* the next event is taken whether or not the caller has taken the snapshot
CanPullAhead == pc \in {"await", "yield"} /\ pos < Len(stream)

\* 31: the async for asks for the next event only when the body has run to
\* its end, that is after the generator was resumed from the yield
CanPull == pc = "await" /\ pos < Len(stream)

\* 31-36: the next event arrives and is given to the chain
PullEvent ==
    /\ CanPull
    /\ LET r == ProcessEvent(handlers, stream[pos + 1], ctx)
           a == AfterEvent(r.out, outcome, emitted)
       IN  /\ pos' = pos + 1
           /\ prevCtx' = ctx
           /\ ctx' = r.out.ctx
           /\ lastResult' = r.out.result
           /\ lastRaised' = r.out.raised
           /\ trueCount' = IF r.out.result THEN trueCount + 1 ELSE trueCount
           /\ invoked' = r.invoked
           /\ pc' = a.pc
           /\ outcome' = a.outcome
           /\ emitted' = a.emitted
    /\ UNCHANGED sessionVars
    /\ UNCHANGED <<handlers, stream, entered, enterLog, exitLog, runStarted,
                   streamOpen>>

\* 36 -> 31: the caller asks for the next snapshot; the generator resumes
Resume ==
    /\ pc = "yield"
    /\ pc' = "await"
    /\ UNCHANGED sessionVars
    /\ UNCHANGED <<handlers, outcome, stream, pos, ctx, emitted, entered,
                   enterLog, exitLog, runStarted, streamOpen, lastResult,
                   lastRaised, trueCount, invoked, prevCtx>>

\* a last yield after the loop
ExhaustedYieldsAgain ==
    /\ pc = "await"
    /\ pos = Len(stream)
    /\ streamOpen' = FALSE
    /\ pc' = "unwinding"
    /\ outcome' = "done"
    /\ emitted' = Append(emitted, Snapshot(ctx))
    /\ UNCHANGED sessionVars
    /\ UNCHANGED <<handlers, stream, pos, ctx, entered, enterLog, exitLog,
                   runStarted, lastResult, lastRaised, trueCount, invoked,
                   prevCtx>>

\* 31: the stream is exhausted; the async for ends and the body of the async
\* with is left normally
Exhausted ==
    /\ pc = "await"
    /\ pos = Len(stream)
    /\ streamOpen' = FALSE
    /\ pc' = "unwinding"
    /\ outcome' = "done"
    /\ UNCHANGED sessionVars
    /\ UNCHANGED <<handlers, stream, pos, ctx, emitted, entered, enterLog,
                   exitLog, runStarted, lastResult, lastRaised, trueCount,
                   invoked, prevCtx>>

\* 31: the run fails or disconnects; the stream raises instead of delivering
\* the next event, and ends with that
SourceFails ==
    /\ pc = "await"
    /\ streamOpen' = FALSE
    /\ pc' = "unwinding"
    /\ outcome' = "source_failed"
    /\ UNCHANGED sessionVars
    /\ UNCHANGED <<handlers, stream, pos, ctx, emitted, entered, enterLog,
                   exitLog, runStarted, lastResult, lastRaised, trueCount,
                   invoked, prevCtx>>

\* What a cancellation leaves of the event stream.  Cancelled while awaiting
\* the next event (31), the cancellation is raised inside the stream's own
\* await and ends the stream.  Closed at the yield (36), or cancelled while
\* entering a server (28), the exception is raised in this function only: the
\* async for does not close its iterator, and nothing in 26-36 closes or
\* cancels result.
StreamAfterCancel(at, open) == IF at = "await" THEN FALSE ELSE open

\* The generator is suspended: at the await of a server being entered (28),
\* at the await of the next event (31), at the yield (36), or at the await of
\* a server being exited by the exit stack (26).
Suspended ==
    \/ pc = "entering" /\ NextServer \in Servers
    \/ pc \in {"await", "yield"}
    \/ pc = "unwinding" /\ entered # << >>

\* the caller cancels the generator at a suspension point of its body
Cancel ==
    /\ Suspended
    /\ pc # "unwinding"
    /\ streamOpen' = StreamAfterCancel(pc, streamOpen)
    /\ pc' = "unwinding"
    /\ outcome' = "cancelled"
    /\ UNCHANGED sessionVars
    /\ UNCHANGED <<handlers, stream, pos, ctx, emitted, entered, enterLog,
                   exitLog, runStarted, lastResult, lastRaised, trueCount,
                   invoked, prevCtx>>

\* the servers exited in the order they were entered
ExitServerFifo ==
    /\ pc = "unwinding"
    /\ entered # << >>
    /\ exitLog' = Append(exitLog, Head(entered))
    /\ entered' = Tail(entered)
    /\ UNCHANGED sessionVars
    /\ UNCHANGED <<handlers, pc, outcome, stream, pos, ctx, emitted,
                   enterLog, runStarted, streamOpen, lastResult, lastRaised,
                   trueCount, invoked, prevCtx>>

\* 26: AsyncExitStack.__aexit__ exits the server entered last
ExitServer ==
    /\ pc = "unwinding"
    /\ entered # << >>
    /\ exitLog' = Append(exitLog, entered[Len(entered)])
    /\ entered' = SubSeq(entered, 1, Len(entered) - 1)
    /\ UNCHANGED sessionVars
    /\ UNCHANGED <<handlers, pc, outcome, stream, pos, ctx, emitted,
                   enterLog, runStarted, streamOpen, lastResult, lastRaised,
                   trueCount, invoked, prevCtx>>

\* 26: the exit stack is empty; the generator ends, normally or with the
\* exception that left the async with
Finish ==
    /\ pc = "unwinding"
    /\ entered = << >>
    /\ pc' = "ended"
    /\ UNCHANGED sessionVars
    /\ UNCHANGED <<handlers, outcome, stream, pos, ctx, emitted, entered,
                   enterLog, exitLog, runStarted, streamOpen, lastResult,
                   lastRaised, trueCount, invoked, prevCtx>>

Next ==
    \/ Call
    \/ EnterServer
    \/ EnterFails
    \/ StartRun
    \/ PullEvent
    \/ Resume
    \/ Exhausted
    \/ SourceFails
    \/ Cancel
    \/ ExitServer
    \/ Finish

Spec == Init /\ [][Next]_vars

\* 39-40: the chat interface calls the chat function again for the next user
\* turn, once the generator of the turn before has ended.  Nothing of the
\* ended call is handed to the new one; ctx is left as the ended call left
\* it until the new call builds its own (21-24).
NewTurn ==
    /\ pc = "ended"
    /\ turn < MaxTurns
    /\ turn' = turn + 1
    /\ priorText' = (priorText \/ ctx # FreshContext)
    /\ pc' = "idle"
    /\ outcome' = "none"
    /\ stream' = << >>
    /\ pos' = 0
    /\ emitted' = << >>
    /\ entered' = << >>
    /\ enterLog' = << >>
    /\ exitLog' = << >>
    /\ runStarted' = FALSE
    /\ streamOpen' = FALSE
    /\ lastResult' = FALSE
    /\ lastRaised' = FALSE
    /\ trueCount' = 0
    /\ invoked' = << >>
    /\ prevCtx' = ctx
    /\ UNCHANGED <<handlers, ctx, runs, ctxs>>

NextTurns ==
    \/ Next
    \/ NewTurn

\* several user turns, one after the other
SpecTurns == Init /\ [][NextTurns]_vars

\* the events a concurrent call may receive
RunEvents ==
    { TextDelta(Hi), TextDelta(There), MalformedDelta,
      ToolCallStarted("search"), ToolCallResult("search", "3 hits"),
      AgentHandoff }

\* one context used by every call
SharedContext(r) == 1

\* 21-24: the context is a local of the call: call r works on its own
ContextOf(r) == r

\* 17-30: call r of the chat function starts while another may be running;
\* both use the one chain handed to create_agent_app (99-101)
RunCall(r) ==
    /\ runs[r].pc = "idle"
    /\ runs' = [runs EXCEPT ![r] = [pc |-> "await", key |-> ContextOf(r),
                                    pulled |-> << >>, emitted |-> << >>]]
    /\ ctxs' = [ctxs EXCEPT ![ContextOf(r)] = FreshContext]
    /\ UNCHANGED <<handlers, callVars, turn, priorText>>

\* 31-36: the next event of call r arrives and is given to the chain
RunPull(r) ==
    /\ runs[r].pc = "await"
    /\ Len(runs[r].pulled) < MaxRunEvents
    /\ \E e \in RunEvents :
          LET o == ProcessEvent(handlers, e, ctxs[runs[r].key]).out
              a == AfterEvent(o, "none", runs[r].emitted)
          IN  /\ ctxs' = [ctxs EXCEPT ![runs[r].key] = o.ctx]
              /\ runs' = [runs EXCEPT ![r].pc = a.pc,
                                      ![r].pulled = Append(@, e),
                                      ![r].emitted = a.emitted]
    /\ UNCHANGED <<handlers, callVars, turn, priorText>>

\* 36 -> 31: the caller of call r takes the snapshot and asks for the next
RunResume(r) ==
    /\ runs[r].pc = "yield"
    /\ runs' = [runs EXCEPT ![r].pc = "await"]
    /\ UNCHANGED <<handlers, callVars, turn, priorText, ctxs>>

\* 31, 33: the stream of call r is exhausted, or the exception of the chain
\* has left the function
RunEnd(r) ==
    /\ runs[r].pc \in {"await", "unwinding"}
    /\ runs' = [runs EXCEPT ![r].pc = "ended"]
    /\ UNCHANGED <<handlers, callVars, turn, priorText, ctxs>>

NextRuns ==
    \E r \in Runs :
        \/ RunCall(r)
        \/ RunPull(r)
        \/ RunResume(r)
        \/ RunEnd(r)

\* two calls of the chat function in flight at once
SpecRuns == Init /\ [][NextRuns]_vars

\* The steps the function takes when the function is called, the servers
\* answer, the run goes on and the caller keeps asking for the next snapshot.
\* A failure of a server or of the source and a cancellation may happen but
\* need not.
ProgramStep ==
    \/ Call
    \/ EnterServer
    \/ StartRun
    \/ PullEvent
    \/ Resume
    \/ Exhausted
    \/ ExitServer
    \/ Finish

\* the event loop runs the generator whenever it can take a step
FairSpec == Spec /\ WF_vars(ProgramStep)

-----------------------------------------------------------------------------
(* What a run should have done, computed from the events alone             *)

\* the events pulled so far, in arrival order
Pulled == SubSeq(stream, 1, pos)

\* the context after the chain has processed es, one after the other,
\* starting from c (a handler that raises ends the processing)
RECURSIVE ContextAfter(_, _, _)
ContextAfter(hs, es, c) ==
    IF es = << >>
    THEN c
    ELSE LET o == ProcessEvent(hs, Head(es), c).out
         IN  IF o.raised THEN c ELSE ContextAfter(hs, Tail(es), o.ctx)

\* the message lists after each event of es for which the chain returned true
RECURSIVE SnapshotsOf(_, _, _)
SnapshotsOf(hs, es, c) ==
    IF es = << >>
    THEN << >>
    ELSE LET o == ProcessEvent(hs, Head(es), c).out
         IN  IF o.raised
             THEN << >>
             ELSE (IF o.result THEN << o.ctx.messages >> ELSE << >>)
                  \o SnapshotsOf(hs, Tail(es), o.ctx)

\* d1 + ... + dn
RECURSIVE ConcatDeltas(_)
ConcatDeltas(es) ==
    IF es = << >> THEN NoText ELSE Head(es).text \o ConcatDeltas(Tail(es))

OnlyTextDeltas(es) ==
    \A i \in 1..Len(es) : es[i].kind = "text_delta" /\ es[i].valid

-----------------------------------------------------------------------------
(* C1: the events of a run are processed in arrival order, and a snapshot  *)
(* of the message list is emitted for exactly those events for which the   *)
(* chain returned true, in the order of those events: at every moment the  *)
(* context is the fold of the chain over the events pulled so far, the     *)
(* emitted snapshots are the message lists after the events that returned  *)
(* true, in order, and their number is the number of true results.         *)
C1_EmitIffTrueInOrder ==
    runStarted =>
        /\ ctx = ContextAfter(handlers, Pulled, FreshContext)
        /\ emitted = SnapshotsOf(handlers, Pulled, FreshContext)
        /\ Len(emitted) = trueCount

\* three events processed, two returned true and the last one false
C1_Witness ==
    /\ pos = 3
    /\ pc = "await"
    /\ Len(emitted) = 2
    /\ ~lastResult
    /\ ~lastRaised

(* C2: after n text-delta events d1..dn on a fresh context the assistant   *)
(* message's content (and the buffer) is d1 + ... + dn, it is still the    *)
(* only message, and the chain has returned true exactly n times.          *)
C2_DeltasConcatenate ==
    (runStarted /\ OnlyTextDeltas(Pulled)) =>
        /\ Len(ctx.messages) = 1
        /\ ctx.current = 1
        /\ ctx.messages[1].content = ConcatDeltas(Pulled)
        /\ ctx.buffer = ConcatDeltas(Pulled)
        /\ trueCount = pos

\* "Hi" then " there" gave "Hi there"
C2_Witness ==
    /\ pos = 2
    /\ Pulled = << TextDelta(Hi), TextDelta(There) >>
    /\ ctx.messages[1].content = HiThere
    /\ trueCount = 2

\* the run of the end-to-end scenario has ended by exhaustion
ScenarioDone == stream = Scenario /\ pc = "ended" /\ outcome = "done"

LastOf(q) == q[Len(q)]

ExitedOnce ==
    /\ entered = << >>
    /\ \A k \in Servers :
          Cardinality({ i \in 1..Len(exitLog) : exitLog[i] = k })
              = Cardinality({ i \in 1..Len(enterLog) : enterLog[i] = k })
    /\ \A k \in Servers :
          Cardinality({ i \in 1..Len(exitLog) : exitLog[i] = k }) <= 1

(* C4 as stated: once a cancelled generator has ended, every entered tool  *)
(* server has been exited and the run's event stream has been released;    *)
(* nothing was pulled or emitted after the cancellation (pos and emitted   *)
(* are those the cancellation found, since only ExitServer and Finish      *)
(* follow it).                                                             *)
C4_CancelReleasesEverything ==
    (pc = "ended" /\ outcome = "cancelled") =>
        /\ ExitedOnce
        /\ ~streamOpen

(* C5 as stated: however the generator ended (exhaustion, failure of the   *)
(* source, a handler's exception, a server that failed to enter, a         *)
(* cancellation), by the time it has ended, and so by the time a failure   *)
(* reaches the caller, every entered server has been exited exactly once   *)
(* and the event stream is no longer held.                                 *)
C5_EveryExitPathReleases ==
    pc = "ended" =>
        /\ ExitedOnce
        /\ ~streamOpen

(* C6 as stated: a processed run-completed event is the last event the     *)
(* consumer pulls, and the snapshots emitted are those of the events       *)
(* before it.                                                              *)
C6_StopsAtRunCompleted ==
    \A i \in 1..pos :
        stream[i].kind = "run_completed" =>
            /\ pos = i
            /\ emitted = SnapshotsOf(handlers, SubSeq(stream, 1, i - 1), FreshContext)


\* the event processed last was handled without raising
Processed(kind) == pos > 0 /\ stream[pos].kind = kind /\ ~lastRaised

(* C7: right after an agent-handoff event the current assistant message is *)
(* a newly appended assistant message with empty content, at a position    *)
(* the pre-handoff list did not have, the buffer is empty, the chain       *)
(* returned true and every pre-handoff message is still in its place       *)
(* unchanged; and whatever is processed after a handoff, the assistant     *)
(* message that was current before it keeps the content it had then (text  *)
(* deltas go to a message appended by that handoff or a later one).        *)
C7_HandoffStartsNewMessage ==
    /\ Processed("agent_handoff") =>
          /\ Len(ctx.messages) = Len(prevCtx.messages) + 1
          /\ ctx.current = Len(ctx.messages)
          /\ ctx.current # prevCtx.current
          /\ ctx.messages[ctx.current] = AssistantMessage(NoText)
          /\ ctx.buffer = NoText
          /\ lastResult
          /\ SubSeq(ctx.messages, 1, Len(prevCtx.messages)) = prevCtx.messages
    /\ \A k \in 1..pos :
          stream[k].kind = "agent_handoff" =>
              LET before == ContextAfter(handlers, SubSeq(stream, 1, k - 1),
                                         FreshContext)
              IN  /\ ctx.current > Len(before.messages)
                  /\ ctx.messages[before.current] = before.messages[before.current]

\* "Hi", a handoff, then " there": the first message still reads "Hi", the
\* second " there"
C7_Witness ==
    /\ pos = 3
    /\ Pulled = << TextDelta(Hi), AgentHandoff, TextDelta(There) >>
    /\ ctx.messages = << AssistantMessage(Hi), AssistantMessage(There) >>
    /\ ctx.current = 2

\* no handler registered before the fallback claims the event
Unmatched(hs, e) ==
    \A i \in 1..Len(hs) : hs[i] # "fallback" => ~CanHandle(hs[i], e)

(* C8: processing an event whose kind no specific handler claims leaves    *)
(* the whole context (buffer, messages, current message) as it was, the    *)
(* chain returns false without raising, no snapshot is emitted and the     *)
(* consumer goes on to await the next event; this holds of every such      *)
(* step, so of any number of repetitions.                                  *)
C8_UnmatchedIsNoOp ==
    [][ (pos' = pos + 1 /\ Unmatched(handlers, stream[pos'])) =>
            /\ ctx' = ctx
            /\ ~lastResult'
            /\ ~lastRaised'
            /\ trueCount' = trueCount
            /\ emitted' = emitted
            /\ pc' = "await" ]_vars

\* after "Hi", an unmatched event was processed twice in a row: the message
\* still reads "Hi" and the only snapshot is the one of the text delta
C8_Witness ==
    /\ pos = 3
    /\ handlers = DefaultHandlers
    /\ Pulled = << TextDelta(Hi), OtherEvent, OtherEvent >>
    /\ ctx.messages = << AssistantMessage(Hi) >>
    /\ Len(emitted) = 1
    /\ pc = "await"

(* C9: processing a run-completed event leaves the message list, and so    *)
(* every message's content, as it was, the chain returns false and no      *)
(* snapshot is emitted for it.                                             *)
C9_RunCompletedMutatesNothing ==
    [][ (pos' = pos + 1 /\ stream[pos'].kind = "run_completed") =>
            /\ ctx'.messages = ctx.messages
            /\ ~lastResult'
            /\ ~lastRaised'
            /\ emitted' = emitted ]_vars

\* run-completed after a text delta and a tool call
C9_Witness ==
    /\ pos = 3
    /\ Pulled = << TextDelta(Hi), ToolCallStarted("search"), RunCompleted >>
    /\ Len(ctx.messages) = 2
    /\ Len(emitted) = 2
    /\ ~lastResult

\* the positions of the registered handlers that can handle e
Matching(hs, e) == { i \in 1..Len(hs) : CanHandle(hs[i], e) }

(* C10: for the event processed last, handle ran on exactly one handler,   *)
(* the one at the least position of the registration order whose canHandle *)
(* is true; the context and the result are what that handler makes of the  *)
(* context before the event; so with a custom handler registered for a     *)
(* kind before the fallback, the custom handler handles it and not the     *)
(* fallback.                                                               *)
C10_FirstMatchWins ==
    pos > 0 =>
        LET e == stream[pos]
            first == CHOOSE i \in Matching(handlers, e) :
                        \A j \in Matching(handlers, e) : i <= j
            o == Handle(handlers[first], e, prevCtx)
        IN  /\ Matching(handlers, e) # {}
            /\ invoked = << handlers[first] >>
            /\ ctx = o.ctx
            /\ lastResult = o.result
            /\ lastRaised = o.raised
            /\ (handlers = CustomHandlers /\ e.kind = "other") =>
                   /\ invoked = << "custom" >>
                   /\ lastResult

\* the custom handler took an event the fallback matches too
C10_Witness ==
    /\ pos = 2
    /\ handlers = CustomHandlers
    /\ Pulled = << TextDelta(Hi), OtherEvent >>
    /\ invoked = << "custom" >>
    /\ lastResult
    /\ Len(emitted) = 2


-----------------------------------------------------------------------------
(* C11: after any sequence of events of any kinds, the current assistant   *)
(* message is an element of the message list, it is an assistant message,  *)
(* its content equals the buffer, and it is the only assistant message in  *)
(* progress: no assistant message comes after it in the list (the earlier  *)
(* ones were finished by a handoff).                                       *)
C11_OneCurrentMessageMirrorsBuffer ==
    /\ ctx.current \in 1..Len(ctx.messages)
    /\ ctx.messages[ctx.current].role = "assistant"
    /\ ctx.messages[ctx.current].content = ctx.buffer
    /\ \A i \in 1..Len(ctx.messages) :
          (i > ctx.current) => ctx.messages[i].role # "assistant"

\* after a handoff and a tool call, " there" is in the second message and in
\* the buffer, and the tool-status entry comes after it
C11_Witness ==
    /\ pos = 3
    /\ stream = << AgentHandoff, ToolCallStarted("search"), TextDelta(There) >>
    /\ ctx.current = 2
    /\ ctx.buffer = There
    /\ ctx.messages[2].content = There
    /\ Len(ctx.messages) = 3

\* s is a prefix of t
IsPrefix(s, t) == Len(s) <= Len(t) /\ SubSeq(t, 1, Len(s)) = s

\* message m of a snapshot, as message n of a later one, has lost nothing
Extends(m, n) ==
    /\ n.role = m.role
    /\ IsPrefix(m.content, n.content)
    /\ n.metadata.tool = m.metadata.tool
    /\ m.metadata.result # "" => n.metadata.result = m.metadata.result

(* C12: of two consecutive snapshots of a run the later one has at least   *)
(* as many messages, and every message of the earlier one is at the same   *)
(* position in the later one with the same role, with a content that the   *)
(* earlier content is a prefix of, and with the tool result it had.        *)
C12_SnapshotsGrow ==
    \A k \in 1..(Len(emitted) - 1) :
        /\ Len(emitted[k]) <= Len(emitted[k + 1])
        /\ \A i \in 1..Len(emitted[k]) :
              Extends(emitted[k][i], emitted[k + 1][i])

\* "Hi", then a handoff, then " there": three snapshots, of one, two and two
\* messages
C12_Witness ==
    /\ Pulled = << TextDelta(Hi), AgentHandoff, TextDelta(There) >>
    /\ Len(emitted) = 3
    /\ emitted[1] = << AssistantMessage(Hi) >>
    /\ emitted[3] = << AssistantMessage(Hi), AssistantMessage(There) >>


(* C14: when a handler raises on an event, the exception leaves the loop   *)
(* and reaches the caller: no snapshot is emitted for the event (the       *)
(* snapshots are those of the events before it), the event is the last one *)
(* the consumer takes from the stream and it is handed to the chain once   *)
(* (the context and the count of results are those before it), and the     *)
(* generator is on its way out or has ended with the handler's failure.    *)
C14_HandlerFailurePropagates ==
    lastRaised =>
        /\ pc \in {"unwinding", "ended"}
        /\ outcome = "handler_failed"
        /\ ProcessEvent(handlers, stream[pos], prevCtx).out.raised
        /\ ctx = prevCtx
        /\ ctx = ContextAfter(handlers, SubSeq(stream, 1, pos - 1), FreshContext)
        /\ emitted = SnapshotsOf(handlers, SubSeq(stream, 1, pos - 1), FreshContext)
        /\ Len(emitted) = trueCount

\* "Hi", then a malformed delta with another event still to come: the
\* generator has ended with the failure, one snapshot, one event unread
C14_Witness ==
    /\ pc = "ended"
    /\ outcome = "handler_failed"
    /\ stream = << TextDelta(Hi), MalformedDelta, TextDelta(There) >>
    /\ pos = 2
    /\ Len(emitted) = 1
    /\ ctx.messages = << AssistantMessage(Hi) >>

\* the tool-status entries of a message list
ToolMessages(msgs) == { i \in 1..Len(msgs) : msgs[i].role = "tool" }

(* C15: a tool-call-started event appends exactly one tool-status entry,   *)
(* for that tool and with no result yet, and leaves the earlier messages   *)
(* as they were; a tool-call-result event for a call that was started adds *)
(* no message and changes only the result in the metadata of the entry of  *)
(* that call; the chain returns true for both, and neither changes the     *)
(* buffer, the current message or its content.                             *)
C15_ToolCallEntries ==
    /\ Processed("tool_call_started") =>
          /\ ctx.messages = Append(prevCtx.messages, ToolStatus(stream[pos].tool))
          /\ lastResult
          /\ ctx.buffer = prevCtx.buffer
          /\ ctx.current = prevCtx.current
    /\ (Processed("tool_call_result")
            /\ ToolEntries(prevCtx.messages, stream[pos].tool) # {}) =>
          LET i == LastToolEntry(prevCtx.messages, stream[pos].tool)
          IN  /\ Len(ctx.messages) = Len(prevCtx.messages)
              /\ ctx.messages[i].metadata.result = stream[pos].result
              /\ ctx.messages[i].metadata.tool = stream[pos].tool
              /\ \A j \in 1..Len(ctx.messages) :
                    j # i => ctx.messages[j] = prevCtx.messages[j]
              /\ lastResult
              /\ ctx.buffer = prevCtx.buffer
              /\ ctx.current = prevCtx.current
              /\ ctx.messages[ctx.current].content
                     = prevCtx.messages[prevCtx.current].content

\* "Hi", the start of "search" and its result: two messages, the second
\* carrying "3 hits", the first still "Hi"
C15_Witness ==
    /\ Pulled = << TextDelta(Hi), ToolCallStarted("search"),
                   ToolCallResult("search", "3 hits") >>
    /\ ctx.messages =
          << AssistantMessage(Hi),
             [role |-> "tool", content |-> NoText,
              metadata |-> [tool |-> "search", result |-> "3 hits"]] >>
    /\ ctx.buffer = Hi
    /\ trueCount = 3


(* C16: the consumer terminates (under FairSpec: the generator is run      *)
(* whenever it can take a step); when it has ended by exhaustion of the    *)
(* stream it has processed every event and emitted exactly the snapshots   *)
(* of the events for which the chain returned true, none when there was no *)
(* such event; and from the moment the loop is left no snapshot is added.  *)
C16_ExhaustionTerminatesQuietly ==
    /\ <>(pc = "ended")
    /\ []((pc \in {"unwinding", "ended"} /\ outcome = "done") =>
             /\ pos = Len(stream)
             /\ emitted = SnapshotsOf(handlers, stream, FreshContext)
             /\ Len(emitted) = trueCount)
    /\ [][ (pc \in {"unwinding", "ended"}) => (emitted' = emitted) ]_vars

\* a stream on which the chain never returned true ended with no snapshot
C16_Witness ==
    /\ pc = "ended"
    /\ outcome = "done"
    /\ handlers = DefaultHandlers
    /\ stream = << OtherEvent, RunCompleted >>
    /\ pos = 2
    /\ emitted = << >>


ExitedInReverse ==
    /\ Len(exitLog) <= Len(enterLog)
    /\ \A i \in 1..Len(exitLog) : exitLog[i] = enterLog[Len(enterLog) + 1 - i]

(* C19: the servers are entered in list order; the run is started, and an  *)
(* event pulled, only when all of them are entered; while the generator is *)
(* entering, awaiting an event or at a yield, no server has been exited;   *)
(* servers are exited only once the body is left, in the reverse order of  *)
(* their entry.                                                            *)
C19_ServersAroundTheLoop ==
    /\ \A i \in 1..Len(enterLog) : enterLog[i] = i
    /\ runStarted => enterLog = [i \in Servers |-> i]
    /\ (pos > 0 \/ emitted # << >>) => runStarted
    /\ pc \in {"entering", "await", "yield"} =>
          /\ exitLog = << >>
          /\ entered = enterLog
    /\ exitLog # << >> => pc \in {"unwinding", "ended"}
    /\ ExitedInReverse

\* a run of two events has ended; the servers were exited last one first
C19_Witness ==
    /\ pc = "ended"
    /\ outcome = "done"
    /\ pos = 2
    /\ Len(emitted) = 2
    /\ enterLog = [i \in Servers |-> i]
    /\ exitLog = [i \in Servers |-> NumServers + 1 - i]

(* C20: when entering a server has failed, no later server is entered, the *)
(* run is not started, no event is processed and no snapshot emitted; the  *)
(* servers entered before are exited, last one first, and when the         *)
(* generator has ended with the failure all of them are.                   *)
C20_EnterFailureUnwinds ==
    outcome = "enter_failed" =>
        /\ pc \in {"unwinding", "ended"}
        /\ Len(enterLog) < NumServers
        /\ ~ENABLED EnterServer
        /\ ~ENABLED StartRun
        /\ ~runStarted
        /\ ~streamOpen
        /\ pos = 0
        /\ trueCount = 0
        /\ emitted = << >>
        /\ ExitedInReverse
        /\ pc = "ended" => (entered = << >> /\ Len(exitLog) = Len(enterLog))

\* the second server failed to enter; the first was exited and the
\* generator ended with the failure
C20_Witness ==
    /\ pc = "ended"
    /\ outcome = "enter_failed"
    /\ enterLog = << 1 >>
    /\ exitLog = << 1 >>
    /\ entered = << >>


(* C18 (under SpecTurns): in every turn the call starts from the fresh     *)
(* context, an empty buffer and one empty assistant message, whatever the  *)
(* turn before left; the context and the snapshots of the turn are those   *)
(* of its own events processed from the fresh context, so no text or       *)
(* message of an earlier turn is in them.                                  *)
C18_EachTurnStartsFresh ==
    /\ pc = "entering" =>
          /\ ctx = FreshContext
          /\ ctx.buffer = NoText
          /\ ctx.messages = << AssistantMessage(NoText) >>
          /\ emitted = << >>
    /\ pc \in {"await", "yield", "unwinding", "ended"} =>
          /\ ctx = ContextAfter(handlers, Pulled, FreshContext)
          /\ emitted = SnapshotsOf(handlers, Pulled, FreshContext)

\* the second turn, after a turn that left text: its first snapshot holds
\* " there" and nothing else
C18_Witness ==
    /\ turn = 2
    /\ priorText
    /\ pc = "yield"
    /\ Pulled = << TextDelta(There) >>
    /\ emitted = << << AssistantMessage(There) >> >>


(* C13 (under SpecRuns): two calls that share the one chain and have each  *)
(* their own context do not disturb each other: in every interleaving of   *)
(* their steps the context of each call and the snapshots it has emitted   *)
(* are those of its own events processed alone from a fresh context, and   *)
(* the two calls never work on the same context.                           *)
C13_RunsAreIndependent ==
    /\ \A r \in Runs :
          runs[r].pc # "idle" =>
             /\ ctxs[runs[r].key] =
                   ContextAfter(handlers, runs[r].pulled, FreshContext)
             /\ runs[r].emitted =
                   SnapshotsOf(handlers, runs[r].pulled, FreshContext)
    /\ \A r, q \in Runs :
          (r # q /\ runs[r].pc # "idle" /\ runs[q].pc # "idle")
             => runs[r].key # runs[q].key

\* both calls are in the middle of their streams, with different contents
C13_Witness ==
    /\ runs[1].pc = "yield"
    /\ runs[1].pulled = << TextDelta(Hi), TextDelta(There) >>
    /\ ctxs[runs[1].key].messages = << AssistantMessage(HiThere) >>
    /\ runs[2].pc = "yield"
    /\ runs[2].pulled = << ToolCallStarted("search") >>
    /\ Len(ctxs[runs[2].key].messages) = 2
    /\ Len(runs[1].emitted) = 2
    /\ Len(runs[2].emitted) = 1

=============================================================================
